---- MODULE Spec2Model ----
(***************************************************************************)
(* PhishStop: the multi-signal URL risk-scoring engine of                  *)
(* phishing_detector.py (class PhishingDetector and its Flask routes).     *)
(*                                                                         *)
(* Text (URLs, domains, page bodies) is a sequence of one-character        *)
(* strings, so that parsing, lower-casing, splitting and substring search  *)
(* are computed as the code computes them.  Labels that the code never     *)
(* inspects (stage names, reasons, outcomes) are plain strings.            *)
(***************************************************************************)
EXTENDS Integers, Sequences, FiniteSets, TLC

VARIABLES
    blacklisted_domains,  \* PhishingDetector.blacklisted_domains: the in-memory set
    db,                   \* the tables as seen through the one shared connection
    txn,                  \* threads whose statements are in the connection's open transaction
    cursor,               \* the thread whose statement the one shared cursor ran last
    resp,                 \* the HTTP response of the request handled last
    calls,                \* the stages analyze_url invoked for that request, in order
    net,                  \* the GET requests content_analysis issued for that request
    log,                  \* the lines that request logged about its store and its fetch
    pc,                   \* per worker thread: its position in a handler
    req                   \* per worker thread: the request it is handling

vars == <<blacklisted_domains, db, txn, cursor, resp, calls, net, log, pc, req>>

-----------------------------------------------------------------------------
(* A Python assignment: F applied to the value of x, computed once.        *)

Eval(x, F(_)) == CHOOSE r \in {F(v) : v \in {x}} : TRUE

-----------------------------------------------------------------------------
(* Characters and the str methods the code uses.                           *)

UpperChars == <<"A","B","C","D","E","F","G","H","I","J","K","L","M",
                "N","O","P","Q","R","S","T","U","V","W","X","Y","Z">>
LowerChars == <<"a","b","c","d","e","f","g","h","i","j","k","l","m",
                "n","o","p","q","r","s","t","u","v","w","x","y","z">>
Digit == {"0","1","2","3","4","5","6","7","8","9"}
Upper == {UpperChars[i] : i \in 1..26}
Lower == {LowerChars[i] : i \in 1..26}
Alpha == Upper \cup Lower
AlphaNum == Alpha \cup Digit

\* str.lower() on one character
LowerChar(c) ==
    IF c \in Upper
    THEN LowerChars[CHOOSE i \in 1..26 : UpperChars[i] = c]
    ELSE c

\* str.lower()
lower(text) == Eval(text, LAMBDA s : [i \in 1..Len(s) |-> LowerChar(s[i])])

\* s[n:] and s[:n]
Drop(text, n) == Eval(text, LAMBDA s : SubSeq(s, n + 1, Len(s)))
Take(text, n) == SubSeq(text, 1, n)

\* str.find(c) for one character, counted from 1; 0 when absent
find(text, c) ==
    Eval({i \in 1..Len(text) : text[i] = c},
         LAMBDA at : IF at = {} THEN 0 ELSE CHOOSE i \in at : \A j \in at : i <= j)

\* str.count(c) for one character
count(text, c) == Cardinality({i \in 1..Len(text) : text[i] = c})

\* the offsets at which sub occurs in s
Occurrences(s, sub) ==
    {i \in 0..(Len(s) - Len(sub)) : \A k \in 1..Len(sub) : s[i + k] = sub[k]}

\* sub in text
Contains(text, sub) ==
    \E s \in {text} : \E i \in 0..(Len(s) - Len(sub)) : \A k \in 1..Len(sub) : s[i + k] = sub[k]

\* str.count(sub): the occurrences that do not overlap, scanned left to right
RECURSIVE CountFrom(_, _, _)
CountFrom(at, from, width) ==
    Eval({i \in at : i >= from},
         LAMBDA later : IF later = {} THEN 0
                        ELSE 1 + CountFrom(later,
                                           (CHOOSE i \in later : \A j \in later : i <= j) + width,
                                           width))
count_sub(text, sub) ==
    Eval(text, LAMBDA s : CountFrom(Occurrences(s, sub), 0, Len(sub)))

\* str.split(c) for one character
RECURSIVE SplitAt(_, _, _)
SplitAt(s, stops, from) ==
    Eval({i \in stops : i >= from},
         LAMBDA later :
            IF later = {} THEN << SubSeq(s, from, Len(s)) >>
            ELSE Eval(CHOOSE i \in later : \A j \in later : i <= j,
                      LAMBDA i : << SubSeq(s, from, i - 1) >> \o SplitAt(s, later, i + 1)))
split(text, c) ==
    Eval(text, LAMBDA s : SplitAt(s, {i \in 1..Len(s) : s[i] = c}, 1))

\* sep.join(parts[from:]) over character sequences
RECURSIVE JoinFrom(_, _, _)
JoinFrom(parts, sep, from) ==
    IF from > Len(parts) THEN <<>>
    ELSE IF from = Len(parts) THEN parts[from]
    ELSE parts[from] \o sep \o JoinFrom(parts, sep, from + 1)
join(parts, sep) == Eval(parts, LAMBDA ps : JoinFrom(ps, sep, 1))

\* the Python str a character sequence stands for
RECURSIVE StrFrom(_, _)
StrFrom(s, from) == IF from > Len(s) THEN "" ELSE s[from] \o StrFrom(s, from + 1)
Str(text) == Eval(text, LAMBDA s : StrFrom(s, 1))

\* ','.join(names) over plain strings
RECURSIVE JoinNamesFrom(_, _)
JoinNamesFrom(names, from) ==
    IF from > Len(names) THEN ""
    ELSE IF from = Len(names) THEN names[from]
    ELSE names[from] \o "," \o JoinNamesFrom(names, from + 1)
join_names(names) == Eval(names, LAMBDA ns : JoinNamesFrom(ns, 1))

AllDigits(s, a, b) == a <= b /\ \A i \in a..b : s[i] \in Digit

\* re.match(r'^\d+\.\d+\.\d+\.\d+$', text)
MatchesDottedQuad(text) ==
    \E parts \in {split(text, ".")} :
        /\ Len(parts) = 4
        /\ \A k \in 1..4 : AllDigits(parts[k], 1, Len(parts[k]))

-----------------------------------------------------------------------------
(* urllib.parse.urlparse, on text without tabs, newlines, ';' or leading   *)
(* blanks.  error stands for the ValueError("Invalid IPv6 URL") it raises. *)

SchemeChars == AlphaNum \cup {"+", "-", "."}

\* url[:i] is a scheme: i = url.find(':') > 0, a letter first, scheme characters only
SplitScheme(url) ==
    Eval(find(url, ":"),
         LAMBDA i :
            IF i > 1 /\ url[1] \in Alpha /\ \A j \in 1..(i - 1) : url[j] \in SchemeChars
            THEN [scheme |-> lower(Take(url, i - 1)), rest |-> Drop(url, i)]
            ELSE [scheme |-> <<>>, rest |-> url])

\* _splitnetloc: after '//', up to the first of '/', '?', '#'
SplitNetloc(s) ==
    IF Len(s) >= 2 /\ s[1] = "/" /\ s[2] = "/"
    THEN Eval({i \in 3..Len(s) : s[i] \in {"/", "?", "#"}},
              LAMBDA stops :
                 Eval(IF stops = {} THEN Len(s) + 1
                      ELSE CHOOSE i \in stops : \A j \in stops : i <= j,
                      LAMBDA stop : [netloc |-> SubSeq(s, 3, stop - 1),
                                     rest   |-> SubSeq(s, stop, Len(s))]))
    ELSE [netloc |-> <<>>, rest |-> s]

\* s.split(c, 1): the text before the first c and the text after it
SplitOnce(s, c) ==
    Eval(find(s, c),
         LAMBDA i : IF i > 0
                    THEN [before |-> Take(s, i - 1), after |-> Drop(s, i)]
                    ELSE [before |-> s, after |-> <<>>])

urlparse(text) ==
    Eval(SplitScheme(Eval(text, LAMBDA url : url)),
         LAMBDA a :
            Eval(SplitNetloc(a.rest),
                 LAMBDA b :
                    Eval(SplitOnce(SplitOnce(b.rest, "#").before, "?"),
                         LAMBDA c :
                            [error  |-> \/ count(b.netloc, "[") > 0 /\ count(b.netloc, "]") = 0
                                        \/ count(b.netloc, "]") > 0 /\ count(b.netloc, "[") = 0,
                             scheme |-> a.scheme,
                             netloc |-> b.netloc,
                             path   |-> c.before,
                             query  |-> c.after])))

-----------------------------------------------------------------------------
(* The rule-based "model": create_rule_based_model.                        *)

suspicious_keywords ==
    << <<"l","o","g","i","n">>, <<"s","i","g","n","i","n">>,
       <<"v","e","r","i","f","y">>, <<"u","p","d","a","t","e">>,
       <<"c","o","n","f","i","r","m">>, <<"s","e","c","u","r","i","t","y">>,
       <<"a","c","c","o","u","n","t">>, <<"b","a","n","k">>,
       <<"p","a","y","p","a","l">>, <<"a","m","a","z","o","n">>,
       <<"f","a","c","e","b","o","o","k">>, <<"g","o","o","g","l","e">>,
       <<"s","e","c","u","r","e">>,
       <<"a","u","t","h","e","n","t","i","c","a","t","i","o","n">>,
       <<"v","a","l","i","d","a","t","i","o","n">> >>

suspicious_tlds ==
    << <<".","t","k">>, <<".","m","l">>, <<".","g","a">>, <<".","c","f">>,
       <<".","g","q">>, <<".","t","o","p">>, <<".","x","y","z">>,
       <<".","c","l","i","c","k">>, <<".","d","o","w","n","l","o","a","d">>,
       <<".","w","o","r","k">>, <<".","p","a","r","t","y">>,
       <<".","r","a","c","i","n","g">>,
       <<".","a","c","c","o","u","n","t","a","n","t">> >>

\* x in list
InList(list, x) == \E v \in {x} : \E k \in 1..Len(list) : list[k] = v
\* any(item in text for item in list)
AnyIn(list, text) == \E s \in {text} : \E k \in 1..Len(list) : Contains(s, list[k])

\* suspicious_patterns, each under re.search(pattern, url, re.IGNORECASE),
\* over a text s and the positions of its dots
PatternIP(s, dots) ==            \* \d+\.\d+\.\d+\.\d+
    \E p1, p2, p3 \in dots :
        /\ p1 > 1 /\ s[p1 - 1] \in Digit
        /\ AllDigits(s, p1 + 1, p2 - 1)
        /\ AllDigits(s, p2 + 1, p3 - 1)
        /\ p3 < Len(s) /\ s[p3 + 1] \in Digit
PatternHyphens(s) ==             \* [-_]{2,}
    \E i \in 1..(Len(s) - 1) : s[i] \in {"-", "_"} /\ s[i + 1] \in {"-", "_"}
PatternNumericLabel(s, dots) ==  \* \.\d+\.
    \E p1, p2 \in dots : AllDigits(s, p1 + 1, p2 - 1)
LongRun == 30
PatternLongRun(s) ==             \* [a-z0-9]{30,}
    \E i \in 1..(Len(s) - LongRun + 1) :
        \A j \in i..(i + LongRun - 1) : s[j] \in AlphaNum
suspicious_patterns(text) ==
    \E s \in {text} : \E dots \in {{i \in 1..Len(s) : s[i] = "."}} :
        \/ PatternIP(s, dots)
        \/ PatternHyphens(s)
        \/ PatternNumericLabel(s, dots)
        \/ PatternLongRun(s)

-----------------------------------------------------------------------------
(* calculate_entropy and extract_url_features.                             *)

\* round(1000 * log2(k)) for k in 1..128: math.log(p) / math.log(2.0) in
\* thousandths of a bit
Log2Milli ==
    << 0, 1000, 1585, 2000, 2322, 2585, 2807, 3000, 3170, 3322, 3459, 3585, 3700, 3807, 3907, 4000,
       4087, 4170, 4248, 4322, 4392, 4459, 4524, 4585, 4644, 4700, 4755, 4807, 4858, 4907, 4954, 5000,
       5044, 5087, 5129, 5170, 5209, 5248, 5285, 5322, 5358, 5392, 5426, 5459, 5492, 5524, 5555, 5585,
       5615, 5644, 5672, 5700, 5728, 5755, 5781, 5807, 5833, 5858, 5883, 5907, 5931, 5954, 5977, 6000,
       6022, 6044, 6066, 6087, 6109, 6129, 6150, 6170, 6190, 6209, 6229, 6248, 6267, 6285, 6304, 6322,
       6340, 6358, 6375, 6392, 6409, 6426, 6443, 6459, 6476, 6492, 6508, 6524, 6539, 6555, 6570, 6585,
       6600, 6615, 6629, 6644, 6658, 6672, 6687, 6700, 6714, 6728, 6741, 6755, 6768, 6781, 6794, 6807,
       6820, 6833, 6845, 6858, 6870, 6883, 6895, 6907, 6919, 6931, 6943, 6954, 6966, 6977, 6989, 7000 >>

\* sum over the distinct characters c of count(c) * log2(count(c)), in
\* thousandths, taken position by position: s[i] adds log2(count(s[i]))
RECURSIVE SumCountLog(_, _, _)
SumCountLog(s, lo, hi) ==
    IF lo > hi THEN 0
    ELSE IF lo = hi THEN Log2Milli[count(s, s[lo])]
    ELSE Eval((lo + hi) \div 2,
              LAMBDA mid : SumCountLog(s, lo, mid) + SumCountLog(s, mid + 1, hi))

\* Shannon entropy in thousandths of a bit:
\* -sum(p * log2(p)) = log2(n) - sum(count(c) * log2(count(c))) / n
calculate_entropy(string) ==
    Eval(string,
         LAMBDA s :
            IF Len(s) = 0 THEN 0
            ELSE (Len(s) * Log2Milli[Len(s)] - SumCountLog(s, 1, Len(s))) \div Len(s))

\* the features of a URL, given urlparse(url) and netloc.split('.')
FeaturesOf(url, parsed, domain_parts) ==
    [url_length      |-> Len(url),
     domain_length   |-> Len(parsed.netloc),
     path_length     |-> Len(parsed.path),
     query_length    |-> Len(parsed.query),
     subdomain_count |-> IF Len(domain_parts) > 2 THEN Len(domain_parts) - 2 ELSE 0,
     tld             |-> IF Len(domain_parts) >= 2
                         THEN <<".">> \o join(SubSeq(domain_parts, Len(domain_parts) - 1,
                                                     Len(domain_parts)), <<".">>)
                         ELSE <<>>,
     dot_count        |-> count(url, "."),
     hyphen_count     |-> count(url, "-"),
     underscore_count |-> count(url, "_"),
     at_symbol_count  |-> count(url, "@"),
     percent_count    |-> count(url, "%"),
     slash_count      |-> count(url, "/"),
     question_count   |-> count(url, "?"),
     equal_count      |-> count(url, "="),
     has_https |-> IF parsed.scheme = <<"h","t","t","p","s">> THEN 1 ELSE 0,
     has_http  |-> IF parsed.scheme = <<"h","t","t","p">> THEN 1 ELSE 0,
     has_www   |-> IF Contains(parsed.netloc, <<"w","w","w",".">>) THEN 1 ELSE 0,
     has_ip    |-> IF MatchesDottedQuad(parsed.netloc) THEN 1 ELSE 0,
     has_suspicious_keywords |->
         IF AnyIn(suspicious_keywords, lower(url)) THEN 1 ELSE 0,
     entropy   |-> calculate_entropy(url)]

extract_url_features(text) ==
    Eval(text,
         LAMBDA url :
            Eval(urlparse(url),
                 LAMBDA parsed :
                    Eval(split(parsed.netloc, "."),
                         LAMBDA domain_parts : FeaturesOf(url, parsed, domain_parts))))

-----------------------------------------------------------------------------
(* load_blacklists and check_blacklist.                                    *)

common_phishing_domains ==
    { <<"b","i","t",".","l","y">>,
      <<"t","i","n","y","u","r","l",".","c","o","m">>,
      <<"t",".","c","o">>,
      <<"g","o","o",".","g","l">>,
      <<"o","w",".","l","y">>,
      <<"p","h","i","s","h","i","n","g","-","s","i","t","e",".","c","o","m">>,
      <<"f","a","k","e","-","l","o","g","i","n",".","n","e","t">>,
      <<"s","c","a","m","-","b","a","n","k",".","o","r","g">> }

\* the set load_blacklists builds from the built-in list and the blacklist table
load_blacklists(table) == common_phishing_domains \cup {r.domain : r \in table}

check_blacklist(url) ==
    \E domain \in {lower(urlparse(url).netloc)} :
        \/ domain \in blacklisted_domains
        \/ \E domain_parts \in {split(domain, ".")} :
               \E i \in 1..Len(domain_parts) :
                   JoinFrom(domain_parts, <<".">>, i) \in blacklisted_domains

-----------------------------------------------------------------------------
(* heuristic_analysis, ml_analysis, content_analysis.                      *)

When(cond, x) == IF cond THEN x ELSE 0
Said(cond, reason) == IF cond THEN <<reason>> ELSE <<>>
Min(a, b) == IF a < b THEN a ELSE b
Max(a, b) == IF a > b THEN a ELSE b

\* the rules of heuristic_analysis that fire, in the order the code tests them
HeuristicRules(url, parsed) ==
    Eval(lower(parsed.netloc), LAMBDA domain :
    [long    |-> Len(url) > 100,
     short   |-> Len(url) <= 100 /\ Len(url) < 20,
     ip      |-> MatchesDottedQuad(domain),
     tld     |-> AnyIn(suspicious_tlds, domain),
     subs    |-> count(domain, ".") > 3,
     pattern |-> suspicious_patterns(url),
     noHttps |-> /\ AnyIn(<< <<"l","o","g","i","n">>,
                             <<"s","i","g","n","i","n">>,
                             <<"p","a","s","s","w","o","r","d">> >>, lower(url))
                 /\ parsed.scheme # <<"h","t","t","p","s">>])

heuristic_analysis(text) ==
    Eval(text,
         LAMBDA url :
            Eval(urlparse(url),
                 LAMBDA parsed :
                    Eval(HeuristicRules(url, parsed),
                         LAMBDA fired :
                            [score   |-> When(fired.long, 20) + When(fired.short, 10)
                                         + When(fired.ip, 50) + When(fired.tld, 30)
                                         + When(fired.subs, 25) + When(fired.pattern, 30)
                                         + When(fired.noHttps, 40),
                             reasons |-> Said(fired.long, "Very long URL")
                                         \o Said(fired.short, "Very short URL (suspicious)")
                                         \o Said(fired.ip, "Uses IP address instead of domain")
                                         \o Said(fired.tld, "Suspicious top-level domain")
                                         \o Said(fired.subs, "Excessive number of subdomains")
                                         \o Said(fired.pattern, "Suspicious pattern detected")
                                         \o Said(fired.noHttps, "Sensitive page without HTTPS")])))

\* the score ml_analysis gives a feature record
FeatureScore(features) ==
      When(features.url_length > 75, 15)
    + When(features.domain_length > 50, 20)
    + When(features.dot_count > 5, 10)
    + When(features.hyphen_count > 3, 15)
    + When(features.at_symbol_count > 0, 25)
    + When(features.has_https = 0, 20)
    + When(features.has_suspicious_keywords = 1, 30)
    + When(features.entropy > 4500, 25)
    + When(features.subdomain_count > 2, 15)
    + When(InList(suspicious_tlds, features.tld), 35)

ml_analysis(url) ==
    Eval(extract_url_features(url),
         LAMBDA features :
            Eval(FeatureScore(features),
                 LAMBDA risk_score :
                    [risk_score |-> risk_score,
                     features   |-> features,
                     confidence |-> Min(risk_score * 2, 100)]))

suspicious_content ==
    << <<"v","e","r","i","f","y"," ","y","o","u","r"," ","i","d","e","n","t","i","t","y">>,
       <<"c","o","n","f","i","r","m"," ","y","o","u","r"," ","a","c","c","o","u","n","t">>,
       <<"u","p","d","a","t","e"," ","y","o","u","r"," ","i","n","f","o","r","m","a","t","i","o","n">>,
       <<"s","u","s","p","e","n","d","e","d"," ","a","c","c","o","u","n","t">>,
       <<"u","n","a","u","t","h","o","r","i","z","e","d"," ","a","c","c","e","s","s">>,
       <<"s","e","c","u","r","i","t","y"," ","b","r","e","a","c","h">> >>

sensitive_fields ==
    << <<"p","a","s","s","w","o","r","d">>,
       <<"c","r","e","d","i","t"," ","c","a","r","d">>,
       <<"s","s","n">>,
       <<"s","o","c","i","a","l"," ","s","e","c","u","r","i","t","y">> >>

\* the phrases of suspicious_content found in the body, in list order
PhrasesIn(content) ==
    SelectSeq(suspicious_content, LAMBDA phrase : Contains(content, phrase))

RECURSIVE PhraseReasons(_, _)
PhraseReasons(found, from) ==
    IF from > Len(found) THEN <<>>
    ELSE << "Suspicious content: " \o Str(found[from]) >> \o PhraseReasons(found, from + 1)

\* the rules of content_analysis that fire on a body: response.text.lower()
ContentRules(text) ==
    Eval(lower(text), LAMBDA content :
    [form   |-> /\ Contains(content, <<"<","f","o","r","m">>)
                /\ AnyIn(sensitive_fields, content),
     found  |-> PhrasesIn(content),
     many   |-> count_sub(content, <<"s","r","c","=","\"","h","t","t","p">>)
                  + count_sub(content, <<"h","r","e","f","=","\"","h","t","t","p">>) > 10])

\* the scoring of a fetched body
score_content(text) ==
    Eval(ContentRules(text),
         LAMBDA fired :
            [failed  |-> FALSE,
             score   |-> When(fired.form, 40) + 25 * Len(fired.found) + When(fired.many, 20),
             reasons |-> Said(fired.form, "Sensitive form fields detected")
                         \o PhraseReasons(fired.found, 1)
                         \o Said(fired.many, "Excessive external resources")])

\* content_analysis whose except clause scores the unreachable page
content_analysis_penalty(url, fetch) ==
    IF ~fetch.ok
    THEN [failed |-> TRUE, score |-> 20, reasons |-> <<"Page could not be fetched">>]
    ELSE score_content(fetch.text)

\* fetch is what requests.get(url, timeout=5, allow_redirects=False) did:
\* [ok |-> FALSE] when it (or response.text) raised, else the body text.
\* failed says that the except clause ran (and logged the error).
content_analysis(url, fetch) ==
    IF ~fetch.ok
    THEN [failed |-> TRUE, score |-> 0, reasons |-> <<>>]
    ELSE score_content(fetch.text)

-----------------------------------------------------------------------------
(* The requests the model submits.                                         *)

EmptyText  == <<>>
\* https://example.com/index
UrlIndex   == <<"h","t","t","p","s",":","/","/","e","x","a","m","p","l","e",".","c","o","m","/","i","n","d","e","x">>
\* http://a.b.Example.com/account
UrlAccount == <<"h","t","t","p",":","/","/","a",".","b",".","E","x","a","m","p","l","e",".","c","o","m","/","a","c","c","o","u","n","t">>
\* not a url
UrlNotAUrl == <<"n","o","t"," ","a"," ","u","r","l">>
\* http://[bad
UrlBracket == <<"h","t","t","p",":","/","/","[","b","a","d">>
\* https://sub.example.com/
UrlSub     == <<"h","t","t","p","s",":","/","/","s","u","b",".","e","x","a","m","p","l","e",".","c","o","m","/">>

\* https://evil.tk/
UrlEvilTk  == <<"h","t","t","p","s",":","/","/","e","v","i","l",".","t","k","/">>
\* http://shop.example.xyz/
UrlShopXyz == <<"h","t","t","p",":","/","/","s","h","o","p",".","e","x","a","m","p","l","e",".","x","y","z","/">>

URLS == {EmptyText, UrlIndex, UrlAccount, UrlNotAUrl, UrlBracket}

\* hosts under the suspicious TLDs .tk and .xyz, and one under .com
TldURLS == {UrlEvilTk, UrlShopXyz, UrlIndex}

\* example.com, Example.COM, evil.example.com
DomExample     == <<"e","x","a","m","p","l","e",".","c","o","m">>
DomExampleCaps == <<"E","x","a","m","p","l","e",".","C","O","M">>
DomEvil        == <<"e","v","i","l",".","e","x","a","m","p","l","e",".","c","o","m">>

DOMAINS == {EmptyText, DomExample, DomExampleCaps, DomEvil}
REASONS == {"User reported", "Vendor feed"}

\* <html>Welcome</html>
PageWelcome == <<"<","h","t","m","l",">","W","e","l","c","o","m","e","<","/","h","t","m","l",">">>
\* <FORM><input name="Password">Verify your identity</FORM>
PageForm    == <<"<","F","O","R","M",">","<","i","n","p","u","t"," ","n","a","m","e","=","\"","P","a","s","s","w","o","r","d","\"",">","V","e","r","i","f","y"," ","y","o","u","r"," ","i","d","e","n","t","i","t","y","<","/","F","O","R","M",">">>

PAGES == {PageWelcome, PageForm}
FetchFailed   == [ok |-> FALSE, text |-> EmptyText]
FetchOutcomes == {FetchFailed} \cup {[ok |-> TRUE, text |-> p] : p \in PAGES}

\* what phishing_data.db can hold of the blacklist table when the process starts
PersistedBlacklist == {[domain |-> DomEvil, reason |-> "User reported"]}

\* the thread that constructs the detector and, when the server is not
\* threaded, serves every request; and the worker threads of the threaded server
MainThread == "main"
Threads    == {"t1", "t2"}

NoRequest == [op |-> "none"]
NoResponse == [route |-> "none", status |-> 0]


-----------------------------------------------------------------------------
(* analyze_url: the aggregator.  Each step below is one block of the       *)
(* method, applied to the results dict the block before it left.           *)

BlacklistScore      == 80
ContentGate         == 30
PhishingThreshold   == 60
SuspiciousThreshold == 40

\* results as initialised (the timestamp, never read again, is left out)
new_results(url) ==
    [url               |-> url,
     is_phishing       |-> "False",
     risk_score        |-> 0,
     confidence        |-> 0,
     detection_methods |-> <<>>,
     reasons           |-> <<>>]

blacklist_step(r, hit) ==
    IF hit
    THEN [r EXCEPT !.is_phishing       = "True",
                   !.risk_score        = @ + BlacklistScore,
                   !.detection_methods = Append(@, "blacklist"),
                   !.reasons           = Append(@, "URL found in phishing blacklist")]
    ELSE r

\* the heuristic block tagging the stage whatever it scored
heuristic_step_always_tagged(r, heuristic) ==
    [r EXCEPT !.risk_score        = @ + heuristic.score,
              !.detection_methods = Append(@, "heuristic"),
              !.reasons           = @ \o heuristic.reasons]

heuristic_step(r, heuristic) ==
    [r EXCEPT !.risk_score        = @ + heuristic.score,
              !.detection_methods = IF heuristic.score > 0
                                    THEN Append(@, "heuristic") ELSE @,
              !.reasons           = IF heuristic.score > 0
                                    THEN @ \o heuristic.reasons ELSE @]

ml_step(r, ml_result) ==
    [r EXCEPT !.risk_score        = @ + ml_result.risk_score,
              !.confidence        = Max(@, ml_result.confidence),
              !.detection_methods = IF ml_result.risk_score > 0
                                    THEN Append(@, "machine_learning") ELSE @]

\* the gate written with >= for >
content_gate_inclusive(r) == r.risk_score >= ContentGate

\* if results['risk_score'] > 30
content_gate(r) == r.risk_score > ContentGate

content_step(r, content_result) ==
    [r EXCEPT !.risk_score        = @ + content_result.score,
              !.detection_methods = IF content_result.score > 0
                                    THEN Append(@, "content_analysis") ELSE @,
              !.reasons           = IF content_result.score > 0
                                    THEN @ \o content_result.reasons ELSE @]

\* the final classification without its elif branch
classify_two_way(r) ==
    [r EXCEPT !.is_phishing = IF r.risk_score >= PhishingThreshold
                              THEN "True" ELSE "False"]

classify(r) ==
    [r EXCEPT !.is_phishing =
        IF r.risk_score >= PhishingThreshold THEN "True"
        ELSE IF r.risk_score >= SuspiciousThreshold THEN "None"
        ELSE "False"]

Call(stage, score) == [stage |-> stage, score |-> score]

\* what the content block adds when the gate is shut
NoContent == [failed |-> FALSE, score |-> 0, reasons |-> <<>>]

\* analyze_url up to the call of store_analysis.  raised: urlparse raised in
\* check_blacklist and nothing caught it.  calls: the stages invoked, in order,
\* each with the score it returned.  net: the GET requests issued.  log: the
\* error lines logged.
analyze_url(url, fetch) ==
    IF urlparse(url).error
    THEN [raised |-> TRUE, results |-> new_results(url),
          calls |-> <<>>, net |-> <<>>, log |-> <<>>]
    ELSE
    Eval(check_blacklist(url), LAMBDA hit :
    Eval(heuristic_analysis(url), LAMBDA heuristic :
    Eval(ml_analysis(url), LAMBDA ml_result :
    Eval(ml_step(heuristic_step(blacklist_step(new_results(url), hit), heuristic), ml_result),
         LAMBDA r3 :
    Eval(content_gate(r3), LAMBDA gate :
    Eval(IF gate THEN content_analysis(url, fetch) ELSE NoContent, LAMBDA content_result :
        [raised  |-> FALSE,
         results |-> classify(IF gate THEN content_step(r3, content_result) ELSE r3),
         calls   |-> << Call("blacklist", When(hit, BlacklistScore)),
                        Call("heuristic", heuristic.score),
                        Call("machine_learning", ml_result.risk_score) >>
                     \o (IF gate
                         THEN << Call("content_analysis", content_result.score) >>
                         ELSE <<>>),
         net     |-> IF gate THEN << [url |-> url, fetch |-> fetch] >> ELSE <<>>,
         log     |-> IF gate /\ content_result.failed
                     THEN <<"Content analysis failed">> ELSE <<>>]))))))

-----------------------------------------------------------------------------
(* The SQLite tables (setup_database) and the statements run on them.      *)
(* A table is the set of its rows; the columns no statement reads (id,     *)
(* timestamp, added_date) are left out.                                    *)

\* how sqlite3 binds True / False / None to the BOOLEAN column
sql_bool(v) == IF v = "True" THEN <<1>> ELSE IF v = "False" THEN <<0>> ELSE <<>>

analysis_row(results) ==
    [url               |-> results.url,
     domain            |-> urlparse(results.url).netloc,
     risk_score        |-> results.risk_score,
     is_phishing       |-> sql_bool(results.is_phishing),
     detection_methods |-> join_names(results.detection_methods)]

\* INSERT on a table with no UNIQUE(url): the new row beside the old one
insert_beside(table, row) == table \cup {row}

\* INSERT OR REPLACE INTO url_analysis, url TEXT UNIQUE
insert_or_replace(table, row) == {r \in table : r.url # row.url} \cup {row}

\* INSERT OR REPLACE on the blacklist table
insert_replacing_domain(table, row) ==
    {r \in table : r.domain # row.domain} \cup {row}

\* INSERT OR IGNORE INTO blacklist, domain TEXT PRIMARY KEY
insert_or_ignore(table, row) ==
    IF \E r \in table : r.domain = row.domain THEN table ELSE table \cup {row}

\* What a write (execute, then commit) can do: both succeed; execute raises
\* and the table is untouched; commit raises and the statement stays in the
\* connection's open transaction.
WriteOutcomes == {"ok", "execute_error", "commit_error"}

\* store_analysis(results) run by thread t: the tables, the open transaction
\* and the log it leaves
store_analysis(t, results, outcome) ==
    [db  |-> IF outcome = "execute_error" THEN db
             ELSE [db EXCEPT !.url_analysis =
                               insert_or_replace(@, analysis_row(results))],
     txn |-> IF outcome = "ok" THEN {}
             ELSE IF outcome = "commit_error" THEN txn \cup {t}
             ELSE txn,
     log |-> IF outcome = "ok" THEN <<>> ELSE <<"Database error">>]

\* add_to_blacklist(domain, reason) run by thread t
add_to_blacklist(t, domain, reason, outcome) ==
    [db  |-> IF outcome = "execute_error" THEN db
             ELSE [db EXCEPT !.blacklist =
                               insert_or_ignore(@, [domain |-> domain, reason |-> reason])],
     txn |-> IF outcome = "ok" THEN {}
             ELSE IF outcome = "commit_error" THEN txn \cup {t}
             ELSE txn,
     blacklisted_domains |-> IF outcome = "ok"
                             THEN blacklisted_domains \cup {domain}
                             ELSE blacklisted_domains,
     log |-> IF outcome = "ok" THEN <<"Added to blacklist">>
             ELSE <<"Blacklist update error">>]

RECURSIVE SumScores(_)
SumScores(rows) ==
    IF rows = {} THEN 0
    ELSE LET r == CHOOSE x \in rows : TRUE
         IN  r.risk_score + SumScores(rows \ {r})

\* the dict get_statistics returns when its try block raises
statistics_error ==
    [total_analyzed |-> 0, phishing_detected |-> 0, avg_risk_score |-> 0]

\* get_statistics: avg_risk_score in hundredths, round(avg, 2)
get_statistics ==
    LET rows == db.url_analysis
        n    == Cardinality(rows)
    IN  [total_analyzed    |-> n,
         phishing_detected |-> Cardinality({r \in rows : r.is_phishing = <<1>>}),
         avg_risk_score    |-> IF n = 0 THEN 0
                               ELSE (200 * SumScores(rows) + n) \div (2 * n)]
-----------------------------------------------------------------------------
(* Construction: setup_database, load_ml_model, load_blacklists.           *)

Init ==
    /\ db = [url_analysis |-> {}, blacklist |-> PersistedBlacklist]
    /\ blacklisted_domains = load_blacklists(PersistedBlacklist)
    /\ txn = {}
    /\ cursor = MainThread
    /\ resp = NoResponse
    /\ calls = <<>>
    /\ net = <<>>
    /\ log = <<>>
    /\ pc = [t \in Threads |-> "idle"]
    /\ req = [t \in Threads |-> NoRequest]

-----------------------------------------------------------------------------
(* The Flask routes, each handled from start to finish by thread t.        *)

\* POST /analyze
route_analyze(t, url, fetch, outcome) ==
    \E a \in {analyze_url(url, fetch)} :
    \E s \in {store_analysis(t, a.results, outcome)} :
        /\ IF url = EmptyText
           THEN /\ resp' = [route |-> "analyze", status |-> 400,
                            body |-> [error |-> "URL is required"]]
                /\ calls' = <<>> /\ net' = <<>> /\ log' = <<>>
                /\ UNCHANGED <<db, txn, cursor>>
           ELSE IF a.raised
           THEN /\ resp' = [route |-> "analyze", status |-> 500,
                            body |-> [error |-> "Invalid IPv6 URL"]]
                /\ calls' = a.calls /\ net' = a.net /\ log' = a.log
                /\ UNCHANGED <<db, txn, cursor>>
           ELSE /\ resp' = [route |-> "analyze", status |-> 200, body |-> a.results]
                /\ calls' = a.calls /\ net' = a.net /\ log' = a.log \o s.log
                /\ db' = s.db /\ txn' = s.txn /\ cursor' = t
        /\ UNCHANGED <<blacklisted_domains, pc, req>>

\* POST /blacklist
route_blacklist(t, domain, reason, outcome) ==
    \E s \in {add_to_blacklist(t, domain, reason, outcome)} :
        /\ IF domain = EmptyText
           THEN /\ resp' = [route |-> "blacklist", status |-> 400,
                            body |-> [error |-> "Domain is required"]]
                /\ log' = <<>>
                /\ UNCHANGED <<db, txn, cursor, blacklisted_domains>>
           ELSE /\ resp' = [route |-> "blacklist", status |-> 200,
                            body |-> [success |-> TRUE, domain |-> domain]]
                /\ log' = s.log
                /\ db' = s.db /\ txn' = s.txn /\ cursor' = t
                /\ blacklisted_domains' = s.blacklisted_domains
        /\ calls' = <<>> /\ net' = <<>>
        /\ UNCHANGED <<pc, req>>

\* GET /statistics
route_statistics(t) ==
    /\ resp' = [route |-> "statistics", status |-> 200, body |-> get_statistics]
    /\ cursor' = t
    /\ calls' = <<>> /\ net' = <<>> /\ log' = <<>>
    /\ UNCHANGED <<db, txn, blacklisted_domains, pc, req>>

\* GET /health
route_health ==
    /\ resp' = [route |-> "health", status |-> 200,
                body |-> [status |-> "healthy", service |-> "phishing-detector"]]
    /\ calls' = <<>> /\ net' = <<>> /\ log' = <<>>
    /\ UNCHANGED <<db, txn, cursor, blacklisted_domains, pc, req>>

\* The server working through one request after another, over given inputs
Serve(urls, fetches, stores, domains, reasons, adds) ==
    \/ \E url \in urls, fetch \in fetches, outcome \in stores :
           route_analyze(MainThread, url, fetch, outcome)
    \/ \E domain \in domains, reason \in reasons, outcome \in adds :
           route_blacklist(MainThread, domain, reason, outcome)
    \/ route_statistics(MainThread)
    \/ route_health

\* every URL, page and store outcome, over a blacklist that gains example.com
Next == Serve(URLS, FetchOutcomes, WriteOutcomes, {DomExample}, {"User reported"}, {"ok"})

Spec == Init /\ [][Next]_vars

\* every domain, reason and store outcome, with analyses of sub.example.com
NextBlacklist ==
    Serve({UrlSub}, {FetchFailed}, {"ok"}, DOMAINS, REASONS, WriteOutcomes)

SpecBlacklist == Init /\ [][NextBlacklist]_vars

\* analyses of hosts under suspicious TLDs, with every page
NextTld == Serve(TldURLS, FetchOutcomes, {"ok"}, {DomExample}, {"User reported"}, {"ok"})

SpecTld == Init /\ [][NextTld]_vars

-----------------------------------------------------------------------------
(* The threaded server (app.run: one thread per request), all threads on   *)
(* the one detector, its one connection and its one cursor, with no lock.  *)
(* A thread is between two of its calls on the connection at every pc.     *)

ConcURLS    == {UrlIndex}
ConcDomains == {DomExample}

SharedUnchanged == UNCHANGED <<resp, calls, net, log>>

\* POST /analyze up to store_analysis's cursor.execute
conc_analyze(t, url, fetch) ==
    \E a \in {analyze_url(url, fetch)} :
        /\ pc[t] = "idle"
        /\ ~a.raised
        /\ req' = [req EXCEPT ![t] = [op |-> "analyze", results |-> a.results]]
        /\ pc' = [pc EXCEPT ![t] = "store_execute"]
        /\ UNCHANGED <<db, txn, cursor, blacklisted_domains>>
        /\ SharedUnchanged

\* store_analysis: cursor.execute(INSERT OR REPLACE ...)
conc_store_execute(t, ok) ==
    /\ pc[t] = "store_execute"
    /\ IF ok
       THEN /\ db' = [db EXCEPT !.url_analysis =
                        insert_or_replace(@, analysis_row(req[t].results))]
            /\ txn' = txn \cup {t}
            /\ cursor' = t
            /\ pc' = [pc EXCEPT ![t] = "store_commit"]
       ELSE /\ pc' = [pc EXCEPT ![t] = "idle"]
            /\ UNCHANGED <<db, txn, cursor>>
    /\ UNCHANGED <<req, blacklisted_domains>>
    /\ SharedUnchanged

\* store_analysis: conn.commit(), which commits the connection's whole transaction
conc_store_commit(t, ok) ==
    /\ pc[t] = "store_commit"
    /\ txn' = IF ok THEN {} ELSE txn
    /\ pc' = [pc EXCEPT ![t] = "idle"]
    /\ UNCHANGED <<db, cursor, req, blacklisted_domains>>
    /\ SharedUnchanged

\* POST /blacklist up to add_to_blacklist's cursor.execute
conc_blacklist(t, domain, reason) ==
    /\ pc[t] = "idle"
    /\ req' = [req EXCEPT ![t] = [op |-> "blacklist", domain |-> domain, reason |-> reason]]
    /\ pc' = [pc EXCEPT ![t] = "add_execute"]
    /\ UNCHANGED <<db, txn, cursor, blacklisted_domains>>
    /\ SharedUnchanged

\* add_to_blacklist: cursor.execute(INSERT OR IGNORE ...)
conc_add_execute(t, ok) ==
    /\ pc[t] = "add_execute"
    /\ IF ok
       THEN /\ db' = [db EXCEPT !.blacklist =
                        insert_or_ignore(@, [domain |-> req[t].domain,
                                             reason |-> req[t].reason])]
            /\ txn' = txn \cup {t}
            /\ cursor' = t
            /\ pc' = [pc EXCEPT ![t] = "add_commit"]
       ELSE /\ pc' = [pc EXCEPT ![t] = "idle"]
            /\ UNCHANGED <<db, txn, cursor>>
    /\ UNCHANGED <<req, blacklisted_domains>>
    /\ SharedUnchanged

\* add_to_blacklist: conn.commit()
conc_add_commit(t, ok) ==
    /\ pc[t] = "add_commit"
    /\ txn' = IF ok THEN {} ELSE txn
    /\ pc' = [pc EXCEPT ![t] = IF ok THEN "add_set" ELSE "idle"]
    /\ UNCHANGED <<db, cursor, req, blacklisted_domains>>
    /\ SharedUnchanged

\* add_to_blacklist: self.blacklisted_domains.add(domain)
conc_add_set(t) ==
    /\ pc[t] = "add_set"
    /\ blacklisted_domains' = blacklisted_domains \cup {req[t].domain}
    /\ pc' = [pc EXCEPT ![t] = "idle"]
    /\ UNCHANGED <<db, txn, cursor, req>>
    /\ SharedUnchanged

\* GET /statistics: cursor.execute(SELECT ...), which reads through the
\* connection whatever its open transaction holds
conc_statistics_execute(t) ==
    /\ pc[t] = "idle"
    /\ req' = [req EXCEPT ![t] = [op |-> "statistics", body |-> get_statistics,
                                  uncommitted |-> txn \ {t}]]
    /\ cursor' = t
    /\ pc' = [pc EXCEPT ![t] = "stats_fetch"]
    /\ UNCHANGED <<db, txn, blacklisted_domains>>
    /\ SharedUnchanged

\* GET /statistics: cursor.fetchone(); None, and so the except clause, when
\* another thread has run its INSERT on the cursor since
conc_statistics_fetch(t) ==
    /\ pc[t] = "stats_fetch"
    /\ req' = [req EXCEPT ![t].body = IF cursor = t THEN @ ELSE statistics_error]
    /\ pc' = [pc EXCEPT ![t] = "idle"]
    /\ UNCHANGED <<db, txn, cursor, blacklisted_domains>>
    /\ SharedUnchanged

NextConc ==
    \E t \in Threads :
        \/ \E url \in ConcURLS : conc_analyze(t, url, FetchFailed)
        \/ \E ok \in BOOLEAN : conc_store_execute(t, ok)
        \/ \E ok \in BOOLEAN : conc_store_commit(t, ok)
        \/ \E domain \in ConcDomains : conc_blacklist(t, domain, "User reported")
        \/ \E ok \in BOOLEAN : conc_add_execute(t, ok)
        \/ \E ok \in BOOLEAN : conc_add_commit(t, ok)
        \/ conc_add_set(t)
        \/ conc_statistics_execute(t)
        \/ conc_statistics_fetch(t)

SpecConc == Init /\ [][NextConc]_vars

-----------------------------------------------------------------------------
(* Properties of analyze_url, stated on the response to POST /analyze and  *)
(* on what the request did (calls, net, log).                              *)

Analysed == resp.route = "analyze" /\ resp.status = 200

Stages(cs) == {cs[k].stage : k \in 1..Len(cs)}
Tagged(r, stage) == \E k \in 1..Len(r.detection_methods) : r.detection_methods[k] = stage

RECURSIVE SumCalls(_)
SumCalls(cs) == IF Len(cs) = 0 THEN 0 ELSE cs[1].score + SumCalls(Tail(cs))

\* what the scorer behind a stage returns for the request's URL
ScoreOf(stage, url) ==
    IF stage = "blacklist" THEN When(check_blacklist(url), BlacklistScore)
    ELSE IF stage = "heuristic" THEN heuristic_analysis(url).score
    ELSE IF stage = "machine_learning" THEN ml_analysis(url).risk_score
    ELSE IF Len(net) = 0 THEN 0
    ELSE content_analysis(url, net[1].fetch).score

\* C1: the risk_score returned is the sum of the scores of the stages that
\* were invoked, each stage is invoked at most once and counted with the score
\* its scorer gives, and a stage is named in detection_methods exactly when it
\* was invoked and scored more than 0.
C1_ScoreIsSumOfStages ==
    Analysed =>
        /\ \A j, k \in 1..Len(calls) : calls[j].stage = calls[k].stage => j = k
        /\ \A k \in 1..Len(calls) :
               calls[k].score = ScoreOf(calls[k].stage, resp.body.url)
        /\ resp.body.risk_score = SumCalls(calls)
        /\ \A stage \in {"blacklist", "heuristic", "machine_learning", "content_analysis"} :
               Tagged(resp.body, stage) <=>
                   \E k \in 1..Len(calls) : calls[k].stage = stage /\ calls[k].score > 0
        /\ Len(resp.body.detection_methods) <= Len(calls)

\* a blacklisted URL whose page was fetched and scored: three stages contribute
C1_Witness ==
    /\ Analysed
    /\ resp.body.detection_methods = <<"blacklist", "machine_learning", "content_analysis">>
    /\ resp.body.risk_score = 195

\* C2: the verdict is decided by the final total alone, one of three ways:
\* phishing from 60, suspicious from 40 to 59, clean below 40, also for a URL
\* that the blacklist step had already flagged.
C2_VerdictFromTotal ==
    Analysed =>
        /\ resp.body.is_phishing \in {"True", "None", "False"}
        /\ resp.body.is_phishing = "True" <=> resp.body.risk_score >= 60
        /\ resp.body.is_phishing = "None" <=>
               (resp.body.risk_score >= 40 /\ resp.body.risk_score < 60)
        /\ resp.body.is_phishing = "False" <=> resp.body.risk_score < 40

\* a URL that only the feature-based stage scored, at 50: suspicious
C2_Witness ==
    /\ Analysed
    /\ resp.body.risk_score = 50
    /\ resp.body.is_phishing = "None"

\* C3: content_analysis (the fetch) is invoked only as the fourth stage, after
\* blacklist, heuristic and machine_learning, and only when those three total
\* more than 30; at 30 or less nothing is fetched and content_analysis is not a
\* detection method.
C3_ContentGate ==
    resp.route = "analyze" =>
        LET first3 == SumCalls(SubSeq(calls, 1, 3))
        IN  /\ Len(net) > 0 <=> "content_analysis" \in Stages(calls)
            /\ "content_analysis" \in Stages(calls) =>
                   /\ Len(calls) = 4
                   /\ <<calls[1].stage, calls[2].stage, calls[3].stage, calls[4].stage>>
                          = <<"blacklist", "heuristic", "machine_learning", "content_analysis">>
                   /\ first3 > 30
            /\ (resp.status = 200 /\ first3 <= 30) =>
                   /\ Len(net) = 0
                   /\ ~Tagged(resp.body, "content_analysis")

\* the three stages total exactly 30 and nothing is fetched
C3_Witness ==
    /\ Analysed
    /\ Len(calls) = 3
    /\ SumCalls(calls) = 30
    /\ Len(net) = 0

\* C8: when the content stage is invoked and the fetch raises, the stage
\* contributes 0 and no reason, the response is still the complete result with
\* risk_score the sum of the blacklist, heuristic and feature-based scores, and
\* no error reaches the caller.
C8_FetchFailureAbsorbed ==
    (resp.route = "analyze" /\ Len(net) > 0 /\ ~net[1].fetch.ok) =>
        LET url == net[1].url
            hit == check_blacklist(url)
        IN  /\ resp.status = 200
            /\ resp.body.url = url
            /\ resp.body.risk_score =
                   When(hit, BlacklistScore) + heuristic_analysis(url).score
                       + ml_analysis(url).risk_score
            /\ ~Tagged(resp.body, "content_analysis")
            /\ resp.body.reasons =
                   Said(hit, "URL found in phishing blacklist")
                       \o heuristic_analysis(url).reasons
            /\ resp.body.is_phishing \in {"True", "None", "False"}

\* the fetch of a suspicious URL failed and the failure was logged
C8_Witness ==
    /\ Analysed
    /\ Len(net) > 0 /\ ~net[1].fetch.ok
    /\ log = <<"Content analysis failed">>
    /\ resp.body.risk_score = 50

-----------------------------------------------------------------------------
(* Properties of the blacklist: check_blacklist after add_to_blacklist,    *)
(* and what POST /blacklist answers.                                       *)

InLog(line) == \E k \in 1..Len(log) : log[k] = line

\* the URLs looked up after an add, with hosts example.com, sub.example.com
\* and a.b.Example.com
ProbeURLs == {UrlIndex, UrlSub, UrlAccount}

HostOf(url) == lower(urlparse(url).netloc)

EndsWith(s, suffix) ==
    Len(suffix) <= Len(s) /\ Drop(s, Len(s) - Len(suffix)) = suffix

\* the host of url, compared case-insensitively, is d or ends with "." + d
Covers(d, url) ==
    HostOf(url) = lower(d) \/ EndsWith(HostOf(url), <<".">> \o lower(d))

\* the right-aligned dot-suffixes of a host: the host, and what follows each dot
DotSuffixes(h) == {Drop(h, i) : i \in {j \in 0..Len(h) : j = 0 \/ h[j] = "."}}

\* C4: once an add of d has been written and has returned, check_blacklist is
\* true for every URL whose host, compared case-insensitively, is d or ends
\* with "." + d, and it is true only if some right-aligned dot-suffix of the
\* host is in the blacklist set.
C4_SuffixMatching ==
    (resp.route = "blacklist" /\ resp.status = 200 /\ InLog("Added to blacklist")) =>
        \A u \in ProbeURLs :
            /\ Covers(resp.body.domain, u) => check_blacklist(u)
            /\ check_blacklist(u) => DotSuffixes(HostOf(u)) \cap blacklisted_domains # {}

\* C5: when the store write fails inside add_to_blacklist, POST /blacklist
\* answers with a failure, never with success.
C5_WriteFailureSurfaced ==
    (resp.route = "blacklist" /\ InLog("Blacklist update error")) => resp.status # 200

\* a step of POST /blacklist for a domain already in the store and in the set
C9_ReAdd ==
    /\ resp'.route = "blacklist" /\ resp'.status = 200
    /\ \E r \in db.blacklist : r.domain = resp'.body.domain
    /\ resp'.body.domain \in blacklisted_domains

\* C9: an add of a domain that is already in the store and in the set leaves
\* the blacklist table (the first entry's reason included) and the in-memory
\* set as they were and is answered with success; and the table never holds
\* two entries for one domain.
C9_AddIdempotent ==
    /\ [][C9_ReAdd => /\ db'.blacklist = db.blacklist
                      /\ blacklisted_domains' = blacklisted_domains]_vars
    /\ [](\A r1, r2 \in db.blacklist : r1.domain = r2.domain => r1 = r2)

\* evil.example.com, in the store since construction under its first reason,
\* has been added again and the add has returned
C9_Witness ==
    /\ resp.route = "blacklist" /\ resp.status = 200
    /\ resp.body.domain = DomEvil
    /\ InLog("Added to blacklist")
    /\ [domain |-> DomEvil, reason |-> "User reported"] \in db.blacklist
    /\ Cardinality(db.blacklist) >= 2

-----------------------------------------------------------------------------
(* Properties of POST /analyze on its input and on the url_analysis table. *)

\* a URL that parses, with scheme http or https and a host
WellFormed(url) ==
    /\ ~urlparse(url).error
    /\ Str(urlparse(url).scheme) \in {"http", "https"}
    /\ Len(urlparse(url).netloc) > 0

\* C6: a malformed or unparseable URL is refused as a client error before any
\* stage runs: it is never answered with a result, never with a server error,
\* and no row is stored for it.
C6_MalformedFailsFast ==
    resp.route = "analyze" =>
        /\ resp.status \in {200, 400}
        /\ resp.status = 200 => WellFormed(resp.body.url)
        /\ resp.status = 400 => Len(calls) = 0
        /\ \A r \in db.url_analysis : WellFormed(r.url)

\* the columns of a stored row that an analysis decides
Stored(r) ==
    [url |-> r.url, risk_score |-> r.risk_score, is_phishing |-> r.is_phishing,
     detection_methods |-> r.detection_methods]

C10_Stored ==
    /\ resp'.route = "analyze" /\ resp'.status = 200
    /\ \A k \in 1..Len(log') : log'[k] # "Database error"

\* C10: an analysis whose store write succeeds leaves exactly one row for its
\* URL, carrying the risk_score, verdict and detection_methods of this
\* analysis, and leaves the rows of other URLs as they were; and the table
\* never holds two rows for one URL.
C10_UpsertByURL ==
    /\ [][C10_Stored =>
            /\ {Stored(r) : r \in {x \in db'.url_analysis : x.url = resp'.body.url}}
                   = {[url               |-> resp'.body.url,
                       risk_score        |-> resp'.body.risk_score,
                       is_phishing       |-> sql_bool(resp'.body.is_phishing),
                       detection_methods |-> join_names(resp'.body.detection_methods)]}
            /\ Cardinality({x \in db'.url_analysis : x.url = resp'.body.url}) = 1
            /\ {x \in db'.url_analysis : x.url # resp'.body.url}
                   = {x \in db.url_analysis : x.url # resp'.body.url}]_vars
    /\ [](\A r1, r2 \in db.url_analysis : r1.url = r2.url => r1 = r2)

\* example.com/index analysed again after example.com was blacklisted: its one
\* row now carries 80, beside the row of another URL
C10_Witness ==
    /\ resp.route = "analyze" /\ resp.status = 200
    /\ resp.body.url = UrlIndex
    /\ resp.body.risk_score = 80
    /\ ~InLog("Database error")
    /\ {r.risk_score : r \in {x \in db.url_analysis : x.url = UrlIndex}} = {80}
    /\ Cardinality(db.url_analysis) >= 2

-----------------------------------------------------------------------------
(* Properties of the threaded server.                                      *)

\* the threads that have run their INSERT and not yet their commit
Writing == {t \in Threads : pc[t] \in {"store_commit", "add_commit"}}

\* C7: no two writers (store_analysis, add_to_blacklist) are between their
\* execute and their commit at the same time, and no get_statistics reads
\* while another request's statement is uncommitted.
C7_SerializedWriters ==
    /\ Cardinality(Writing) <= 1
    /\ \A t \in Threads : req[t].op = "statistics" => req[t].uncommitted = {}

-----------------------------------------------------------------------------
(* Properties of the feature-based scorer.                                 *)

\* the top-level domain of the URL's host: a dot and the host's last label,
\* empty for a host of fewer than two labels
TopLevelDomain(url) ==
    Eval(split(HostOf(url), "."),
         LAMBDA parts : IF Len(parts) >= 2 THEN <<".">> \o parts[Len(parts)] ELSE <<>>)

\* the score ml_analysis returned to this analysis
FeatureBasedScore == calls[3].score

\* C11: the feature-based score of an analysed URL is what the rules give when
\* the tld compared against the suspicious-TLD list is the top-level domain of
\* the host: 35 more when it is one of the suspicious TLDs (host evil.tk),
\* nothing for this rule otherwise.
C11_SuspiciousTldScored ==
    Analysed =>
        /\ calls[3].stage = "machine_learning"
        /\ FeatureBasedScore =
               FeatureScore([extract_url_features(resp.body.url)
                                EXCEPT !.tld = TopLevelDomain(resp.body.url)])
====
